---- MODULE Spec2Model ----
(***************************************************************************)
(* Model of the captcha gate of src/server.js: the per-IP rate limiter,    *)
(* the challenge generator and validator, the /verify and /process-verify  *)
(* routes, the store-original-URL middleware and the captcha gate.         *)
(*                                                                         *)
(* Time is an integer clock (Date.now()).  The durations of the source     *)
(* (2 minutes, 1 hour, 10 hours) are scaled down to a few clock units; the *)
(* clock starts above every duration, as Date.now() does.                  *)
(*                                                                         *)
(* A JavaScript value that may be undefined is a sequence: <<>> is         *)
(* undefined, <<v>> is the value v.  Strings are sequences of characters.  *)
(***************************************************************************)
EXTENDS Integers, Sequences, FiniteSets, TLC

----------------------------------------------------------------------------
(* Bounds and scaled durations *)

\* process-verify: const maxCaptchaAge = 2 * 60 * 1000 (challenge lifetime), scaled
maxCaptchaAge == 2

\* captchaMiddleware / preventVerifyAccessIfVerified: const maxCaptchaAge = 60 * 60 * 1000, scaled
maxPassedAge == 3

\* const MAX_REQUESTS, scaled
MAX_REQUESTS == 4

\* const WINDOW_MS, scaled
WINDOW_MS == 4

\* how far the clock runs past its start
Horizon == 6

\* Date.now() when the server starts: larger than every duration of the program
StartTime == maxCaptchaAge + maxPassedAge + WINDOW_MS + 1

MaxNow == StartTime + Horizon

----------------------------------------------------------------------------
(* JavaScript values *)

Undefined == <<>>

Some(v) == <<v>>

Val(o) == o[1]

\* JS null (req.session.captchaError = null)
Null == << <<"null">> >>

\* truthiness of a possibly undefined string, number, boolean
TruthyStr(o) == o # Undefined /\ Len(Val(o)) > 0

TruthyNum(o) == o # Undefined /\ Val(o) # 0

TruthyBool(o) == o # Undefined /\ Val(o) = TRUE

lowerAlphabet == <<"a","b","c","d","e","f","g","h","i","j","k","l","m",
                   "n","o","p","q","r","s","t","u","v","w","x","y","z">>

upperAlphabet == <<"A","B","C","D","E","F","G","H","I","J","K","L","M",
                   "N","O","P","Q","R","S","T","U","V","W","X","Y","Z">>

IndexIn(c, alphabet) ==
    IF \E i \in 1..Len(alphabet) : alphabet[i] = c
    THEN CHOOSE i \in 1..Len(alphabet) : alphabet[i] = c
    ELSE 0

\* String.prototype.toLowerCase, character by character
toLowerCase(s) ==
    [i \in 1..Len(s) |->
        IF IndexIn(s[i], upperAlphabet) # 0
        THEN lowerAlphabet[IndexIn(s[i], upperAlphabet)]
        ELSE s[i]]

\* String.prototype.toUpperCase, character by character
toUpperCase(s) ==
    [i \in 1..Len(s) |->
        IF IndexIn(s[i], lowerAlphabet) # 0
        THEN upperAlphabet[IndexIn(s[i], lowerAlphabet)]
        ELSE s[i]]

\* crypto.createHash("sha256").update(s).digest("hex"): an injective digest,
\* never the empty string and never equal to its input
sha256(s) == <<"sha256">> \o s

StartsWith(s, prefix) ==
    /\ Len(s) >= Len(prefix)
    /\ SubSeq(s, 1, Len(prefix)) = prefix

EndsWith(s, suffix) ==
    /\ Len(s) >= Len(suffix)
    /\ SubSeq(s, Len(s) - Len(suffix) + 1, Len(s)) = suffix

----------------------------------------------------------------------------
(* captchaUtils *)

letters == <<"a","b","c","d","e","f","g","h","j","k","m","n",
             "p","q","r","s","t","u","v","w","x","y","z">>

numbers == <<"2","3","4","5","6","7","8","9">>

allChars == letters \o toUpperCase(letters) \o numbers

\* generateCaptcha: rnd is the sequence of randomIndex draws, one per
\* character; its length is the drawn length (5 to 7)
generateCaptcha(rnd) ==
    LET captchaText == [i \in 1..Len(rnd) |-> allChars[rnd[i] + 1]]
    IN  [display |-> captchaText,
         answer  |-> captchaText,
         hash    |-> sha256(toLowerCase(captchaText))]

\* the outcomes of Math.random() explored: "aBcde", "pq2rs7"
RandomDraws ==
    { <<0, 24, 2, 3, 4>>,
      <<12, 13, 46, 14, 15, 51>> }

\* validateWithHash failing open when no hash is stored
validateWithHash_failOpen(userInput, hash) ==
    IF ~TruthyStr(userInput)
    THEN FALSE
    ELSE ~TruthyStr(hash) \/ sha256(toLowerCase(Val(userInput))) = Val(hash)

\* validateWithHash comparing only the length of the digests
validateWithHash_lengthOnly(userInput, hash) ==
    IF ~TruthyStr(userInput) \/ ~TruthyStr(hash)
    THEN FALSE
    ELSE Len(sha256(toLowerCase(Val(userInput)))) = Len(Val(hash))

\* validateWithHash without the lowercasing of the input
validateWithHash_caseSensitive(userInput, hash) ==
    IF ~TruthyStr(userInput) \/ ~TruthyStr(hash)
    THEN FALSE
    ELSE sha256(Val(userInput)) = Val(hash)

validateWithHash(userInput, hash) ==
    IF ~TruthyStr(userInput) \/ ~TruthyStr(hash)
    THEN FALSE
    ELSE sha256(toLowerCase(Val(userInput))) = Val(hash)

----------------------------------------------------------------------------
(* Requests *)

VerifyPath == <<"/","v","e","r","i","f","y">>

ProcessVerifyPath == <<"/","p","r","o","c","e","s","s","-","v","e","r","i","f","y">>

RootPath == <<"/">>

DashboardPath == <<"/","d","a","s","h","b","o","a","r","d">>

FaviconPath == <<"/","f","a","v","i","c","o","n",".","i","c","o">>

NoQuery == <<>>

SomeQuery == <<"?","a","=","1">>

\* a path that is no route and begins like /verify
VerifyPrefixedPath == <<"/","v","e","r","i","f","y","x">>

\* a query string that ends like the name of a resource file
ExtensionQuery == <<"?","f","=","a",".","j","s">>

IPs == {"10.0.0.1"}

\* the captchaInput field of a submitted form: absent, empty, the drawn
\* answers in various letter cases, and a string that is no answer
CaptchaInputs ==
    { Undefined,
      Some(<<>>),
      Some(<<"a","B","c","d","e">>),
      Some(<<"A","B","C","D","E">>),
      Some(<<"p","q","2","r","s","7">>),
      Some(<<"a","b","c","d","f">>) }

Request(method, path, query, input, ip, hasSession) ==
    [method |-> method, path |-> path, query |-> query,
     captchaInput |-> input, ip |-> ip, hasSession |-> hasSession]

\* the requests explored: the challenge page, submissions, pages and a static
\* file, a page with query strings, a path beginning like /verify, the two
\* routes with the other method,
\* and requests for which the session store has produced no req.session
Requests ==
    UNION { { Request("GET", VerifyPath, NoQuery, Undefined, ip, TRUE) }
            \cup { Request("POST", ProcessVerifyPath, NoQuery, i, ip, TRUE) : i \in CaptchaInputs }
            \cup { Request("GET", p, NoQuery, Undefined, ip, TRUE) :
                     p \in {RootPath, DashboardPath, FaviconPath} }
            \cup { Request("GET", DashboardPath, SomeQuery, Undefined, ip, TRUE),
                   Request("GET", DashboardPath, ExtensionQuery, Undefined, ip, TRUE),
                   Request("GET", VerifyPrefixedPath, NoQuery, Undefined, ip, TRUE),
                   Request("POST", VerifyPath, NoQuery, Undefined, ip, TRUE),
                   Request("GET", ProcessVerifyPath, NoQuery, Undefined, ip, TRUE) }
            \cup { Request("GET", VerifyPath, NoQuery, Undefined, ip, FALSE),
                   Request("POST", ProcessVerifyPath, NoQuery, Some(<<"a","B","c","d","e">>), ip, FALSE),
                   Request("GET", DashboardPath, NoQuery, Undefined, ip, FALSE) }
          : ip \in IPs }

\* no request: the last step was the clock or the sweep
NoRequest == Request("none", <<>>, NoQuery, Undefined, "none", FALSE)

\* req.originalUrl: the path with its query string
originalUrl(r) == r.path \o r.query

----------------------------------------------------------------------------
(* Responses *)

\* kind: "send", "redirect" or "next"; by: the middleware or route that answered;
\* shown: what the challenge page displays (the challenge text, the error message)
Response(kind, status, location, by, shown) ==
    [kind |-> kind, status |-> status, location |-> location, by |-> by,
     shown |-> shown]

NoResponse == Response("none", 0, Undefined, "none", Undefined)

\* res.status(429).send(...) of the rate limiter
TooManyRequests == Response("send", 429, Undefined, "rateLimit", Undefined)

\* the error-handling middleware: res.status(500).send("Something broke! ...")
SomethingBroke == Response("send", 500, Undefined, "errorHandler", Undefined)

\* captchaMiddleware: res.status(500).send("Session error. ...")
SessionError == Response("send", 500, Undefined, "captchaMiddleware", Undefined)

Redirect(location, by) == Response("redirect", 302, Some(location), by, Undefined)

\* res.send of the challenge page, with captcha.display and, when it is truthy,
\* the session's captchaError
ChallengePage(display, error) ==
    Response("send", 200, Undefined, "verifyPage",
             <<display, IF error # Undefined /\ error # Null THEN error ELSE Undefined>>)

\* next() out of the gate: the request reaches express.static and the routes behind it
PassedThrough(by) == Response("next", 0, Undefined, by, Undefined)

----------------------------------------------------------------------------
(* State *)

VARIABLES
    now,          \* Date.now()
    ipRequests,   \* the rate limiter's Map: ip -> undefined or {count, resetAt}
    session,      \* req.session of the client, as kept by the session store
    req,          \* the request handled by the last step, if it handled one
    res,          \* the response to it
    before,       \* req.session as that request found it
    journey,      \* how far the client is on the way request - challenge page - submission
    call,         \* a call of validateWithHash on its own: arguments and returned value
    window,       \* per ip, the fixed window its checks fall in and how many fell in it
    inflight,     \* the requests whose session is loaded, with their own req.session,
                  \* in order of arrival, and the responses of those that have ended
    allowedAt,    \* per ip, the times of its last allowed checks, oldest first
    unswept       \* the rate limiter's Map as the same checks leave it when no sweep runs

vars == <<now, ipRequests, session, req, res, before, journey, call, window, inflight,
          allowedAt, unswept>>

ExpiredMessage == <<"Captcha expired. Please try again.">>

IncorrectMessage == <<"Incorrect captcha. Please try again.">>

\* a session the store has just created: no field is set
EmptySession ==
    [captchaHash        |-> Undefined,
     captchaGeneratedAt |-> Undefined,
     captchaPassed      |-> Undefined,
     captchaPassedAt    |-> Undefined,
     captchaError       |-> Undefined,
     originalUrl        |-> Undefined]

\* stage 0: no journey under way; stage 1: the session, not verified, asked
\* for the protected URL `url' and was sent to the challenge page; stage 2: it
\* has then loaded the challenge page; stage 3: it has then submitted an answer
NoJourney == [stage |-> 0, url |-> Undefined]

\* no call of validateWithHash on its own
NoCall == [userInput |-> Undefined, captcha |-> Undefined, returned |-> Undefined]

\* no request is between the load of its session and its handlers
NoFlights == << >>

\* no client's allowed checks are observed
NoTimes == << >>

\* no client's checks are replayed without the sweep
NoShadow == << >>

\* no client's windows are observed
NoWindows == [ip \in {} |-> Undefined]

Init ==
    /\ now = StartTime
    /\ ipRequests = [ip \in IPs |-> Undefined]
    /\ session = EmptySession
    /\ req = NoRequest
    /\ res = NoResponse
    /\ before = EmptySession
    /\ journey = NoJourney
    /\ call = NoCall
    /\ window = NoWindows
    /\ inflight = NoFlights
    /\ allowedAt = NoTimes
    /\ unswept = NoShadow

----------------------------------------------------------------------------
(* Rate limiting middleware *)

\* the middleware opening the next window at resetAt itself
rateLimit_earlyReset(registry, ip, t) ==
    IF registry[ip] = Undefined \/ t >= Val(registry[ip]).resetAt
    THEN [allowed |-> TRUE,
          ipRequests |-> [registry EXCEPT ![ip] = Some([count |-> 1, resetAt |-> t + WINDOW_MS])]]
    ELSE IF Val(registry[ip]).count >= MAX_REQUESTS
    THEN [allowed |-> FALSE, ipRequests |-> registry]
    ELSE [allowed |-> TRUE,
          ipRequests |-> [registry EXCEPT ![ip] =
                            Some([Val(registry[ip]) EXCEPT !.count = Val(registry[ip]).count + 1])]]

\* the middleware rejecting only above MAX_REQUESTS
rateLimit_offByOne(registry, ip, t) ==
    IF registry[ip] = Undefined \/ t > Val(registry[ip]).resetAt
    THEN [allowed |-> TRUE,
          ipRequests |-> [registry EXCEPT ![ip] = Some([count |-> 1, resetAt |-> t + WINDOW_MS])]]
    ELSE IF Val(registry[ip]).count > MAX_REQUESTS
    THEN [allowed |-> FALSE, ipRequests |-> registry]
    ELSE [allowed |-> TRUE,
          ipRequests |-> [registry EXCEPT ![ip] =
                            Some([Val(registry[ip]) EXCEPT !.count = Val(registry[ip]).count + 1])]]

\* the middleware resetting the window without restarting the count at 1
rateLimit_resetToZero(registry, ip, t) ==
    IF registry[ip] = Undefined
    THEN [allowed |-> TRUE,
          ipRequests |-> [registry EXCEPT ![ip] = Some([count |-> 1, resetAt |-> t + WINDOW_MS])]]
    ELSE IF t > Val(registry[ip]).resetAt
    THEN [allowed |-> TRUE,
          ipRequests |-> [registry EXCEPT ![ip] = Some([count |-> 0, resetAt |-> t + WINDOW_MS])]]
    ELSE IF Val(registry[ip]).count >= MAX_REQUESTS
    THEN [allowed |-> FALSE, ipRequests |-> registry]
    ELSE [allowed |-> TRUE,
          ipRequests |-> [registry EXCEPT ![ip] =
                            Some([Val(registry[ip]) EXCEPT !.count = Val(registry[ip]).count + 1])]]

\* the middleware keeping one counter for all clients
rateLimit_sharedCounter(registry, ip, t) ==
    LET key  == CHOOSE k \in DOMAIN registry : TRUE
    IN  IF registry[key] = Undefined \/ t > Val(registry[key]).resetAt
        THEN [allowed |-> TRUE,
              ipRequests |-> [registry EXCEPT ![key] = Some([count |-> 1, resetAt |-> t + WINDOW_MS])]]
        ELSE IF Val(registry[key]).count >= MAX_REQUESTS
        THEN [allowed |-> FALSE, ipRequests |-> registry]
        ELSE [allowed |-> TRUE,
              ipRequests |-> [registry EXCEPT ![key] =
                                Some([Val(registry[key]) EXCEPT !.count = Val(registry[key]).count + 1])]]

\* the middleware of app.use at the top of the chain: whether next() is
\* called, and the Map it leaves
rateLimit(registry, ip, t) ==
    IF registry[ip] = Undefined
    THEN [allowed |-> TRUE,
          ipRequests |-> [registry EXCEPT ![ip] = Some([count |-> 1, resetAt |-> t + WINDOW_MS])]]
    ELSE LET data == Val(registry[ip])
         IN  IF t > data.resetAt
             THEN [allowed |-> TRUE,
                   ipRequests |-> [registry EXCEPT ![ip] = Some([count |-> 1, resetAt |-> t + WINDOW_MS])]]
             ELSE IF data.count >= MAX_REQUESTS
             THEN [allowed |-> FALSE, ipRequests |-> registry]
             ELSE [allowed |-> TRUE,
                   ipRequests |-> [registry EXCEPT ![ip] = Some([data EXCEPT !.count = data.count + 1])]]

\* the sweep with its comparison reversed
cleanup_reversed(registry, t) ==
    [ip \in DOMAIN registry |->
        IF registry[ip] # Undefined /\ t < Val(registry[ip]).resetAt
        THEN Undefined
        ELSE registry[ip]]

\* the sweep deleting an entry at resetAt itself
cleanup_inclusive(registry, t) ==
    [ip \in DOMAIN registry |->
        IF registry[ip] # Undefined /\ t >= Val(registry[ip]).resetAt
        THEN Undefined
        ELSE registry[ip]]

\* the setInterval callback: delete every entry whose window has passed
cleanup(registry, t) ==
    [ip \in DOMAIN registry |->
        IF registry[ip] # Undefined /\ t > Val(registry[ip]).resetAt
        THEN Undefined
        ELSE registry[ip]]

\* the limiter mounted behind the two routes: /verify and /process-verify
\* are answered without a check
limit_routesFirst(registry, r, t) ==
    IF r.path \in {VerifyPath, ProcessVerifyPath}
    THEN [allowed |-> TRUE, ipRequests |-> registry]
    ELSE rateLimit(registry, r.ip, t)

\* the middleware as mounted: app.use without a path, ahead of every route and
\* of the gate, so every request is checked, under req.ip
limit(registry, r, t) == rateLimit(registry, r.ip, t)

\* the fixed window a check of ip at time t falls in, the number of checks
\* that have fallen in it (counted up to MAX_REQUESTS + 1) and the number that
\* fell in the window before it: the first check opens a window of WINDOW_MS,
\* a check after its end opens the next. Only the clients in DOMAIN w are
\* observed.
countCheck(w, ip, t) ==
    IF ip \notin DOMAIN w
    THEN w
    ELSE IF w[ip] = Undefined \/ t > Val(w[ip]).openedAt + WINDOW_MS
    THEN [w EXCEPT ![ip] = Some([openedAt |-> t, checks |-> 1,
                                 previous |-> IF w[ip] = Undefined THEN 0 ELSE Val(w[ip]).checks])]
    ELSE [w EXCEPT ![ip] = Some([openedAt |-> Val(w[ip]).openedAt,
                                 previous |-> Val(w[ip]).previous,
                                 checks |-> IF Val(w[ip]).checks > MAX_REQUESTS
                                            THEN Val(w[ip]).checks
                                            ELSE Val(w[ip]).checks + 1])]

\* the times of the last 2 * MAX_REQUESTS allowed checks of ip, after one at
\* time t. Only the clients in DOMAIN a are observed.
noteAllowed(a, ip, t) ==
    IF ip \notin DOMAIN a
    THEN a
    ELSE LET all == Append(a[ip], t)
         IN  [a EXCEPT ![ip] =
                IF Len(all) > 2 * MAX_REQUESTS + 1 THEN Tail(all) ELSE all]

\* the Map without the sweep, after the check of ip at t
replay(u, ip, t) ==
    IF ip \notin DOMAIN u
    THEN u
    ELSE rateLimit(u, ip, t).ipRequests

----------------------------------------------------------------------------
(* The gate *)

\* captchaMiddleware without the age check
captchaMiddleware_noExpiry(s, t) ==
    IF TruthyBool(s.captchaPassed) /\ TruthyNum(s.captchaPassedAt)
    THEN [session |-> s, res |-> PassedThrough("captchaMiddleware")]
    ELSE [session |-> s, res |-> Redirect(VerifyPath, "captchaMiddleware")]

\* captchaMiddleware with a session present: the session it leaves and its answer
captchaMiddleware(s, t) ==
    IF TruthyBool(s.captchaPassed) /\ TruthyNum(s.captchaPassedAt)
    THEN LET captchaAge == t - Val(s.captchaPassedAt)
         IN  IF captchaAge < maxPassedAge
             THEN [session |-> s, res |-> PassedThrough("captchaMiddleware")]
             ELSE [session |-> [s EXCEPT !.captchaPassed = Undefined,
                                         !.captchaPassedAt = Undefined],
                   res |-> Redirect(VerifyPath, "captchaMiddleware")]
    ELSE [session |-> s, res |-> Redirect(VerifyPath, "captchaMiddleware")]

\* preventVerifyAccessIfVerified counting the last instant of the verified
\* lifetime as verified
preventVerifyAccessIfVerified_inclusive(s, t) ==
    /\ TruthyBool(s.captchaPassed) /\ TruthyNum(s.captchaPassedAt)
    /\ t - Val(s.captchaPassedAt) <= maxPassedAge

\* preventVerifyAccessIfVerified with a session present: TRUE when it
\* redirects to "/" instead of calling next()
preventVerifyAccessIfVerified(s, t) ==
    /\ TruthyBool(s.captchaPassed) /\ TruthyNum(s.captchaPassedAt)
    /\ t - Val(s.captchaPassedAt) < maxPassedAge

\* GET /verify keeping the answer itself in the session, as the earlier
\* server did (req.session.captchaAnswer = captcha.answer)
verifyPage_storesAnswer(s, t, rnd) ==
    IF preventVerifyAccessIfVerified(s, t)
    THEN [session |-> s, res |-> Redirect(RootPath, "preventVerifyAccessIfVerified")]
    ELSE LET captcha == generateCaptcha(rnd)
         IN  [session |-> [s EXCEPT !.captchaHash = Some(captcha.answer),
                                    !.captchaGeneratedAt = Some(t)],
              res |-> ChallengePage(captcha.display, s.captchaError)]

\* GET /verify. The session returned is the one the session middleware
\* stores: it stores the session when the response ends, which res.send does,
\* and does not store it again for this request (resave: false), so the
\* assignment req.session.captchaError = null that follows res.send changes
\* the request's own session object and not the stored session.
verifyPage(s, t, rnd) ==
    IF preventVerifyAccessIfVerified(s, t)
    THEN [session |-> s, res |-> Redirect(RootPath, "preventVerifyAccessIfVerified")]
    ELSE LET captcha == generateCaptcha(rnd)
         IN  [session |-> [s EXCEPT !.captchaHash = Some(captcha.hash),
                                    !.captchaGeneratedAt = Some(t)],
              res |-> ChallengePage(captcha.display, s.captchaError)]

\* POST /process-verify without the expiry check
processVerify_noExpiry(s, t, userInput) ==
    IF validateWithHash(userInput, s.captchaHash)
    THEN LET redirectTo == IF TruthyStr(s.originalUrl) THEN Val(s.originalUrl) ELSE RootPath
         IN  [session |-> [s EXCEPT !.captchaPassed = Some(TRUE),
                                    !.captchaPassedAt = Some(t),
                                    !.captchaHash = Undefined,
                                    !.captchaGeneratedAt = Undefined,
                                    !.originalUrl = Undefined],
              res |-> Redirect(redirectTo, "processVerify")]
    ELSE [session |-> [s EXCEPT !.captchaError = Some(IncorrectMessage)],
          res |-> Redirect(VerifyPath, "processVerify")]

\* POST /process-verify with the expiry test off by one
processVerify_lateExpiry(s, t, userInput) ==
    LET generatedAt == IF TruthyNum(s.captchaGeneratedAt) THEN Val(s.captchaGeneratedAt) ELSE 0
    IN  IF t - generatedAt > maxCaptchaAge + 1
        THEN [session |-> [s EXCEPT !.captchaError = Some(ExpiredMessage)],
              res |-> Redirect(VerifyPath, "processVerify")]
        ELSE processVerify_noExpiry(s, t, userInput)

\* POST /process-verify that forgets to delete originalUrl
processVerify_keepsOriginalUrl(s, t, userInput) ==
    LET generatedAt == IF TruthyNum(s.captchaGeneratedAt) THEN Val(s.captchaGeneratedAt) ELSE 0
    IN  IF t - generatedAt > maxCaptchaAge
        THEN [session |-> [s EXCEPT !.captchaError = Some(ExpiredMessage)],
              res |-> Redirect(VerifyPath, "processVerify")]
        ELSE IF validateWithHash(userInput, s.captchaHash)
        THEN [session |-> [s EXCEPT !.captchaPassed = Some(TRUE),
                                    !.captchaPassedAt = Some(t),
                                    !.captchaHash = Undefined,
                                    !.captchaGeneratedAt = Undefined],
              res |-> Redirect(IF TruthyStr(s.originalUrl) THEN Val(s.originalUrl) ELSE RootPath,
                               "processVerify")]
        ELSE [session |-> [s EXCEPT !.captchaError = Some(IncorrectMessage)],
              res |-> Redirect(VerifyPath, "processVerify")]

\* POST /process-verify comparing the digests before it tests the age
processVerify_validatesFirst(s, t, userInput) ==
    LET generatedAt == IF TruthyNum(s.captchaGeneratedAt) THEN Val(s.captchaGeneratedAt) ELSE 0
    IN  IF ~validateWithHash(userInput, s.captchaHash)
        THEN [session |-> [s EXCEPT !.captchaError = Some(IncorrectMessage)],
              res |-> Redirect(VerifyPath, "processVerify")]
        ELSE IF t - generatedAt > maxCaptchaAge
        THEN [session |-> [s EXCEPT !.captchaError = Some(ExpiredMessage)],
              res |-> Redirect(VerifyPath, "processVerify")]
        ELSE processVerify_noExpiry(s, t, userInput)

\* POST /process-verify
\* POST /process-verify leaving the challenge in the session on success
processVerify_keepsChallenge(s, t, userInput) ==
    LET hash        == s.captchaHash
        generatedAt == IF TruthyNum(s.captchaGeneratedAt) THEN Val(s.captchaGeneratedAt) ELSE 0
        captchaAge  == t - generatedAt
    IN  IF captchaAge > maxCaptchaAge
        THEN [session |-> [s EXCEPT !.captchaError = Some(ExpiredMessage)],
              res |-> Redirect(VerifyPath, "processVerify")]
        ELSE IF validateWithHash(userInput, hash)
        THEN LET redirectTo == IF TruthyStr(s.originalUrl) THEN Val(s.originalUrl) ELSE RootPath
             IN  [session |-> [s EXCEPT !.captchaPassed = Some(TRUE),
                                        !.captchaPassedAt = Some(t),
                                        !.originalUrl = Undefined],
                  res |-> Redirect(redirectTo, "processVerify")]
        ELSE [session |-> [s EXCEPT !.captchaError = Some(IncorrectMessage)],
              res |-> Redirect(VerifyPath, "processVerify")]

processVerify(s, t, userInput) ==
    LET hash        == s.captchaHash
        generatedAt == IF TruthyNum(s.captchaGeneratedAt) THEN Val(s.captchaGeneratedAt) ELSE 0
        captchaAge  == t - generatedAt
    IN  IF captchaAge > maxCaptchaAge
        THEN [session |-> [s EXCEPT !.captchaError = Some(ExpiredMessage)],
              res |-> Redirect(VerifyPath, "processVerify")]
        ELSE IF validateWithHash(userInput, hash)
        THEN LET redirectTo == IF TruthyStr(s.originalUrl) THEN Val(s.originalUrl) ELSE RootPath
             IN  [session |-> [s EXCEPT !.captchaPassed = Some(TRUE),
                                        !.captchaPassedAt = Some(t),
                                        !.captchaHash = Undefined,
                                        !.captchaGeneratedAt = Undefined,
                                        !.originalUrl = Undefined],
                  res |-> Redirect(redirectTo, "processVerify")]
        ELSE [session |-> [s EXCEPT !.captchaError = Some(IncorrectMessage)],
              res |-> Redirect(VerifyPath, "processVerify")]

\* the middleware storing req.path, which drops the query string
storeOriginalUrl_pathOnly(s, r) ==
    IF ~TruthyBool(s.captchaPassed) /\ r.path # VerifyPath /\ r.path # ProcessVerifyPath
    THEN [s EXCEPT !.originalUrl = Some(r.path)]
    ELSE s

\* the middleware that stores the original URL before the gate
storeOriginalUrl(s, r) ==
    IF ~TruthyBool(s.captchaPassed) /\ r.path # VerifyPath /\ r.path # ProcessVerifyPath
    THEN [s EXCEPT !.originalUrl = Some(originalUrl(r))]
    ELSE s

ResourceExtensions ==
    { <<"i","c","o">>, <<"p","n","g">>, <<"j","p","g">>, <<"j","p","e","g">>,
      <<"g","i","f">>, <<"s","v","g">>, <<"c","s","s">>, <<"j","s">> }

\* the gate mounted on /^\/(?!verify|process-verify|favicon.ico|robots.txt).*$/:
\* every path that begins like an exempt path is skipped
skipCaptcha_prefixMatch(path) ==
    \/ StartsWith(path, VerifyPath)
    \/ StartsWith(path, ProcessVerifyPath)
    \/ StartsWith(path, FaviconPath)

\* the condition of the gate middleware under which captchaMiddleware is skipped
skipCaptcha(path) ==
    \/ path = VerifyPath
    \/ path = ProcessVerifyPath
    \/ \E ext \in ResourceExtensions : EndsWith(path, <<".">> \o ext)

\* the two middlewares behind the routes, in order
protect(s, r, t) ==
    LET stored == storeOriginalUrl(s, r)
    IN  IF skipCaptcha(r.path)
        THEN [session |-> stored, res |-> PassedThrough("skipCaptcha")]
        ELSE captchaMiddleware(stored, t)

\* the chain behind the rate limiter for a request that carries a session
dispatch(s, r, t, rnd) ==
    IF r.method = "GET" /\ r.path = VerifyPath
    THEN verifyPage(s, t, rnd)
    ELSE IF r.method = "POST" /\ r.path = ProcessVerifyPath
    THEN processVerify(s, t, r.captchaInput)
    ELSE protect(s, r, t)

\* GET /verify when req.session is undefined: preventVerifyAccessIfVerified
\* calls next(), the route draws a captcha and throws on req.session.captchaHash
verifyPageNoSession == SomethingBroke

\* POST /process-verify when req.session is undefined: the route throws on
\* req.session.captchaHash
processVerifyNoSession == SomethingBroke

\* the two middlewares with the store-original-URL middleware skipping a
\* missing session and captchaMiddleware taking it for an unverified one
protectNoSession_redirect(r) ==
    IF skipCaptcha(r.path)
    THEN PassedThrough("skipCaptcha")
    ELSE Redirect(VerifyPath, "captchaMiddleware")

\* the two middlewares behind the routes when req.session is undefined: the
\* store-original-URL middleware throws on req.session.captchaPassed, so the
\* gate and the session check of captchaMiddleware are not reached
protectNoSession(r) == SomethingBroke

\* the chain behind the rate limiter for a request without req.session
dispatchNoSession(r) ==
    IF r.method = "GET" /\ r.path = VerifyPath
    THEN verifyPageNoSession
    ELSE IF r.method = "POST" /\ r.path = ProcessVerifyPath
    THEN processVerifyNoSession
    ELSE protectNoSession(r)

\* the journey after request r, answered with `out', on session s
journeyNext(j, s, r, out) ==
    IF /\ ~TruthyBool(s.captchaPassed)
       /\ out.by = "captchaMiddleware" /\ out.kind = "redirect"
    THEN [stage |-> 1, url |-> Some(originalUrl(r))]
    ELSE IF j.stage = 1 /\ out.by = "verifyPage"
    THEN [j EXCEPT !.stage = 2]
    ELSE IF j.stage = 2 /\ out.by = "processVerify"
    THEN [j EXCEPT !.stage = 3]
    ELSE NoJourney

----------------------------------------------------------------------------
(* Actions *)

\* the rate limiter answers 429; nothing behind it runs
RateLimited(r) ==
    /\ ~limit(ipRequests, r, now).allowed
    /\ req' = r
    /\ res' = TooManyRequests
    /\ before' = session
    /\ journey' = NoJourney
    /\ window' = countCheck(window, r.ip, now)
    /\ unswept' = replay(unswept, r.ip, now)
    /\ UNCHANGED <<now, ipRequests, session, call, inflight, allowedAt>>

\* req.session is undefined: every route and middleware behind the limiter
\* that touches it throws, and the error handler answers
NoSession(r) ==
    /\ limit(ipRequests, r, now).allowed
    /\ ~r.hasSession
    /\ ipRequests' = limit(ipRequests, r, now).ipRequests
    /\ req' = r
    /\ res' = dispatchNoSession(r)
    /\ before' = session
    /\ journey' = NoJourney
    /\ window' = countCheck(window, r.ip, now)
    /\ allowedAt' = noteAllowed(allowedAt, r.ip, now)
    /\ unswept' = replay(unswept, r.ip, now)
    /\ UNCHANGED <<now, session, call, inflight>>

Handle(r, rnd) ==
    /\ limit(ipRequests, r, now).allowed
    /\ r.hasSession
    /\ ipRequests' = limit(ipRequests, r, now).ipRequests
    /\ session' = dispatch(session, r, now, rnd).session
    /\ req' = r
    /\ res' = dispatch(session, r, now, rnd).res
    /\ before' = session
    /\ journey' = journeyNext(journey, session, r, dispatch(session, r, now, rnd).res)
    /\ window' = countCheck(window, r.ip, now)
    /\ allowedAt' = noteAllowed(allowedAt, r.ip, now)
    /\ unswept' = replay(unswept, r.ip, now)
    /\ UNCHANGED <<now, call, inflight>>

GetVerify ==
    \E r \in Requests, rnd \in RandomDraws :
        /\ r.method = "GET" /\ r.path = VerifyPath
        /\ Handle(r, rnd)

PostProcessVerify ==
    \E r \in Requests :
        /\ r.method = "POST" /\ r.path = ProcessVerifyPath
        /\ Handle(r, CHOOSE rnd \in RandomDraws : TRUE)

OtherRequest ==
    \E r \in Requests :
        /\ ~(r.method = "GET" /\ r.path = VerifyPath)
        /\ ~(r.method = "POST" /\ r.path = ProcessVerifyPath)
        /\ Handle(r, CHOOSE rnd \in RandomDraws : TRUE)

Rejected == \E r \in Requests : RateLimited(r)

Broken == \E r \in Requests : NoSession(r)

\* the periodic sweep of the rate limiter's Map
Sweep ==
    /\ ipRequests' = cleanup(ipRequests, now)
    /\ req' = NoRequest
    /\ res' = NoResponse
    /\ before' = session
    /\ UNCHANGED <<now, session, journey, call, window, inflight, allowedAt, unswept>>

\* Date.now() returns a later time
Advance ==
    /\ now' = now + 1
    /\ req' = NoRequest
    /\ res' = NoResponse
    /\ before' = session
    /\ UNCHANGED <<ipRequests, session, journey, call, window, inflight, allowedAt, unswept>>

\* time passes
Tick == now < MaxNow /\ Advance

Next ==
    \/ GetVerify
    \/ PostProcessVerify
    \/ OtherRequest
    \/ Rejected
    \/ Broken
    \/ Sweep
    \/ Tick

Spec == Init /\ [][Next]_vars

----------------------------------------------------------------------------
(* The rate limiter with several clients *)

LimiterIPs == {"10.0.0.1", "10.0.0.2"}

\* each client asks for a protected page
LimiterRequests ==
    { Request("GET", DashboardPath, NoQuery, Undefined, ip, TRUE) : ip \in LimiterIPs }

InitLimiter ==
    /\ now = StartTime
    /\ ipRequests = [ip \in LimiterIPs |-> Undefined]
    /\ session = EmptySession
    /\ req = NoRequest
    /\ res = NoResponse
    /\ before = EmptySession
    /\ journey = NoJourney
    /\ call = NoCall
    /\ window = [ip \in LimiterIPs |-> Undefined]
    /\ inflight = NoFlights
    /\ allowedAt = NoTimes
    /\ unswept = NoShadow

LimiterAllowed ==
    \E r \in LimiterRequests : Handle(r, CHOOSE rnd \in RandomDraws : TRUE)

LimiterRejected == \E r \in LimiterRequests : RateLimited(r)

NextLimiter ==
    \/ LimiterAllowed
    \/ LimiterRejected
    \/ Sweep
    \/ Tick

SpecLimiter == InitLimiter /\ [][NextLimiter]_vars

----------------------------------------------------------------------------
(* The rate limiter with clients that go idle: requests arrive only while the
   window they open ends before the last instant of the clock; setInterval
   keeps running the sweep and the clock keeps advancing. *)

Early == now + WINDOW_MS < MaxNow

EarlyAllowed == Early /\ LimiterAllowed

EarlyRejected == Early /\ LimiterRejected

NextIdle ==
    \/ EarlyAllowed
    \/ EarlyRejected
    \/ Sweep
    \/ Tick

SpecIdle == InitLimiter /\ [][NextIdle]_vars /\ WF_vars(Tick) /\ WF_vars(Sweep)

----------------------------------------------------------------------------
(* The rate limiter with several clients, beside the Map that the same checks
   leave when setInterval never runs the sweep *)

InitShadow ==
    /\ now = StartTime
    /\ ipRequests = [ip \in LimiterIPs |-> Undefined]
    /\ session = EmptySession
    /\ req = NoRequest
    /\ res = NoResponse
    /\ before = EmptySession
    /\ journey = NoJourney
    /\ call = NoCall
    /\ window = NoWindows
    /\ inflight = NoFlights
    /\ allowedAt = NoTimes
    /\ unswept = [ip \in LimiterIPs |-> Undefined]

ShadowAllowed == LimiterAllowed

ShadowRejected == LimiterRejected

NextShadow ==
    \/ ShadowAllowed
    \/ ShadowRejected
    \/ Sweep
    \/ Tick

SpecShadow == InitShadow /\ [][NextShadow]_vars

----------------------------------------------------------------------------
(* The rate limiter with one client whose allowed checks are timed *)

InitBurst ==
    /\ now = StartTime
    /\ ipRequests = [ip \in IPs |-> Undefined]
    /\ session = EmptySession
    /\ req = NoRequest
    /\ res = NoResponse
    /\ before = EmptySession
    /\ journey = NoJourney
    /\ call = NoCall
    /\ window = NoWindows
    /\ inflight = NoFlights
    /\ allowedAt = [ip \in IPs |-> << >>]
    /\ unswept = NoShadow

BurstAllowed ==
    \E r \in LimiterRequests :
        r.ip \in IPs /\ Handle(r, CHOOSE rnd \in RandomDraws : TRUE)

BurstRejected == \E r \in LimiterRequests : r.ip \in IPs /\ RateLimited(r)

NextBurst ==
    \/ BurstAllowed
    \/ BurstRejected
    \/ Sweep
    \/ Tick

SpecBurst == InitBurst /\ [][NextBurst]_vars

----------------------------------------------------------------------------
(* The same client over a clock long enough for three windows *)

LongHorizon == 2 * WINDOW_MS + 2

LongTick == now < StartTime + LongHorizon /\ Advance

NextLongBurst ==
    \/ BurstAllowed
    \/ BurstRejected
    \/ Sweep
    \/ LongTick

SpecLongBurst == InitBurst /\ [][NextLongBurst]_vars

----------------------------------------------------------------------------
(* Requests in flight together.  The session middleware loads req.session from
   the store as the request's own object and calls next() from a deferred
   callback; the rest of the chain (rate limiter, routes, gate) is synchronous
   and runs to completion, and a modified req.session is written back to the
   store when the response ends.  SpecConcurrent has the requests of one
   session racing within one unit of the clock; SpecConcurrentLimiter has the
   requests of one client racing through the rate limiter as time passes. *)

MaxInflight == 2

ConcurrentRequests ==
    { Request("GET",  VerifyPath,        NoQuery, Undefined, "10.0.0.1", TRUE),
      Request("POST", ProcessVerifyPath, NoQuery, Some(<<"a","B","c","d","e">>), "10.0.0.1", TRUE),
      Request("GET",  DashboardPath,     NoQuery, Undefined, "10.0.0.1", TRUE) }

ConcurrentDraws == { <<0, 24, 2, 3, 4>>, <<12, 13, 46, 14, 15, 51>> }

\* the rate limiter reading the Map as it was when the request arrived
limiterView_stale(current, seen) == seen

\* the Map the rate limiter reads and writes: ipRequests itself, inside the
\* one synchronous function
limiterView(current, seen) == current

InitConcurrent ==
    /\ now = StartTime
    /\ ipRequests = [ip \in IPs |-> Undefined]
    /\ session = EmptySession
    /\ req = NoRequest
    /\ res = NoResponse
    /\ before = EmptySession
    /\ journey = NoJourney
    /\ call = NoCall
    /\ window = [ip \in IPs |-> Undefined]
    /\ inflight = NoFlights
    /\ allowedAt = NoTimes
    /\ unswept = NoShadow

\* the session middleware has loaded the request's session
Arrive(r) ==
    /\ Len(inflight) < MaxInflight
    /\ inflight' = Append(inflight, [stage  |-> "loaded",
                                     req    |-> r,
                                     loaded |-> session,
                                     seen   |-> ipRequests,
                                     res    |-> NoResponse,
                                     rnd    |-> <<>>])
    /\ req' = NoRequest
    /\ res' = NoResponse
    /\ before' = session
    /\ UNCHANGED <<now, ipRequests, session, journey, call, window, allowedAt, unswept>>

\* the synchronous rest of the chain for the i-th request in flight: the rate
\* limiter, then the routes and the gate on the request's own req.session, then
\* the save of a modified req.session
Run(i, rnd) ==
    LET f   == inflight[i]
        lim == limit(limiterView(ipRequests, f.seen), f.req, now)
        out == dispatch(f.loaded, f.req, now, rnd)
        ans == IF lim.allowed THEN out.res ELSE TooManyRequests
    IN  /\ f.stage = "loaded"
        /\ ipRequests' = lim.ipRequests
        /\ window' = countCheck(window, f.req.ip, now)
        /\ session' = IF lim.allowed /\ out.session # f.loaded THEN out.session ELSE session
        /\ req' = f.req
        /\ res' = ans
        /\ before' = f.loaded
        /\ inflight' = [inflight EXCEPT ![i] =
                           [f EXCEPT !.stage = "ended", !.res = ans, !.rnd = rnd]]
        /\ allowedAt' = IF lim.allowed THEN noteAllowed(allowedAt, f.req.ip, now) ELSE allowedAt
        /\ unswept' = replay(unswept, f.req.ip, now)
        /\ UNCHANGED <<now, journey, call>>

\* every request in flight has ended
Settle ==
    /\ inflight # NoFlights
    /\ \A i \in 1..Len(inflight) : inflight[i].stage = "ended"
    /\ inflight' = NoFlights
    /\ req' = NoRequest
    /\ res' = NoResponse
    /\ before' = session
    /\ UNCHANGED <<now, ipRequests, session, journey, call, window, allowedAt, unswept>>

Arrival == \E r \in ConcurrentRequests : Arrive(r)

Completion == \E i \in 1..Len(inflight), rnd \in ConcurrentDraws : Run(i, rnd)

NextConcurrent ==
    \/ Arrival
    \/ Completion
    \/ Settle

SpecConcurrent == InitConcurrent /\ [][NextConcurrent]_vars

LimiterArrival ==
    \E r \in ConcurrentRequests :
        /\ r.method = "GET" /\ r.path = DashboardPath
        /\ Arrive(r)

LimiterCompletion ==
    \E i \in 1..Len(inflight) : Run(i, CHOOSE rnd \in ConcurrentDraws : TRUE)

NextConcurrentLimiter ==
    \/ LimiterArrival
    \/ LimiterCompletion
    \/ Settle
    \/ Sweep
    \/ Tick

SpecConcurrentLimiter == InitConcurrent /\ [][NextConcurrentLimiter]_vars

----------------------------------------------------------------------------
(* validateWithHash on its own: a captcha is generated, an input is validated *)

\* the longest answer and input explored
MaxTextLen == 3

\* the randomIndex draws explored: "a", "b", "B", "2"
DrawnIndexes == {0, 1, 24, 46}

\* the characters typed: those drawn, and one that is never drawn
TypedChars == {"a", "b", "A", "B", "2"}

SeqsUpTo(S, n) == UNION { [1..k -> S] : k \in 0..n }

InitValidate ==
    /\ now = StartTime
    /\ ipRequests = [ip \in IPs |-> Undefined]
    /\ session = EmptySession
    /\ req = NoRequest
    /\ res = NoResponse
    /\ before = EmptySession
    /\ journey = NoJourney
    /\ window = NoWindows
    /\ inflight = NoFlights
    /\ allowedAt = NoTimes
    /\ unswept = NoShadow
    /\ \E rnd \in SeqsUpTo(DrawnIndexes, MaxTextLen) \ {<<>>},
          input \in {Undefined} \cup { Some(t) : t \in SeqsUpTo(TypedChars, MaxTextLen) } :
            call = [userInput |-> input,
                    captcha   |-> Some(generateCaptcha(rnd)),
                    returned  |-> Undefined]

\* captchaUtils.validateWithHash(userInput, captcha.hash)
Validate ==
    /\ call.captcha # Undefined
    /\ call.returned = Undefined
    /\ call' = [call EXCEPT !.returned =
                    Some(validateWithHash(call.userInput, Some(Val(call.captcha).hash)))]
    /\ UNCHANGED <<now, ipRequests, session, req, res, before, journey, window, inflight,
                   allowedAt, unswept>>

NextValidate == Validate

SpecValidate == InitValidate /\ [][NextValidate]_vars

----------------------------------------------------------------------------
(* The vocabulary of the properties *)

\* the last step handled a request that got past the rate limiter with a session
Answered == req.method # "none" /\ req.hasSession /\ res.status # 429

\* the challenge page, the submission endpoint and the static file explored
ExemptPaths == {VerifyPath, ProcessVerifyPath, FaviconPath}

\* the last step was a submission handled by the submission route
Submitted == Answered /\ req.method = "POST" /\ req.path = ProcessVerifyPath

\* the submitted answer, lowercased, has the digest the session stored
DigestMatches ==
    /\ before.captchaHash # Undefined
    /\ req.captchaInput # Undefined
    /\ sha256(toLowerCase(Val(req.captchaInput))) = Val(before.captchaHash)

\* the age of the challenge the submission found
ChallengeAge == now - Val(before.captchaGeneratedAt)

\* the age of the verification the request found
VerifiedAge == now - Val(before.captchaPassedAt)

RedirectedToVerify == res.kind = "redirect" /\ res.location = Some(VerifyPath)

----------------------------------------------------------------------------
(* Properties *)

\* C1: a request for a non-exempt path is either passed through or redirected
\* to /verify, and it is passed through only if the session has captchaPassed
\* set and now - captchaPassedAt is within the verified lifetime.
C1_GatePassesOnlyVerified ==
    (Answered /\ req.path \notin ExemptPaths) =>
        /\ res.kind = "next" \/ RedirectedToVerify
        /\ res.kind = "next" =>
              /\ TruthyBool(before.captchaPassed)
              /\ before.captchaPassedAt # Undefined
              /\ VerifiedAge <= maxPassedAge

C1_Witness ==
    /\ Answered /\ req.path = DashboardPath /\ res.kind = "next"
    /\ TruthyBool(before.captchaPassed)
    /\ VerifiedAge > 0

\* C2: captchaPassed becomes true, or captchaPassedAt is written, only by a
\* submission that finds a stored digest equal to the digest of the lowercased
\* answer and a challenge no older than the challenge lifetime.
C2_VerifiedOnlyBySubmission ==
    ( \/ (session.captchaPassed # before.captchaPassed /\ session.captchaPassed # Undefined)
      \/ (session.captchaPassedAt # before.captchaPassedAt /\ session.captchaPassedAt # Undefined) )
    =>  /\ Submitted
        /\ DigestMatches
        /\ before.captchaGeneratedAt # Undefined
        /\ ChallengeAge <= maxCaptchaAge

C2_Witness ==
    /\ Submitted /\ DigestMatches
    /\ before.captchaPassed = Undefined
    /\ session.captchaPassed = Some(TRUE)
    /\ session.captchaPassedAt = Some(now)

\* C3: whenever captchaPassed is true, captchaPassedAt is present and the
\* session stores no challenge (neither captchaHash nor captchaGeneratedAt).
C3_VerifiedHasNoChallenge ==
    TruthyBool(session.captchaPassed) =>
        /\ session.captchaPassedAt # Undefined
        /\ session.captchaHash = Undefined
        /\ session.captchaGeneratedAt = Undefined

\* C4: the gate, finding a verified session, passes the request and keeps the
\* verification when its age is exactly the verified lifetime, and clears it
\* and redirects to /verify when its age is the verified lifetime plus one.
C4_VerifiedBoundary ==
    ( /\ Answered /\ req.path \notin ExemptPaths
      /\ TruthyBool(before.captchaPassed) /\ before.captchaPassedAt # Undefined )
    =>  /\ VerifiedAge = maxPassedAge =>
              /\ res.kind = "next"
              /\ session.captchaPassed = before.captchaPassed
              /\ session.captchaPassedAt = before.captchaPassedAt
        /\ VerifiedAge = maxPassedAge + 1 =>
              /\ RedirectedToVerify
              /\ session.captchaPassed = Undefined
              /\ session.captchaPassedAt = Undefined

\* C5: a submission with the correct answer is rejected, with the expired
\* error, when the challenge's age is the challenge lifetime plus one, and is
\* accepted when its age is exactly the challenge lifetime.
C5_ChallengeBoundary ==
    (Submitted /\ DigestMatches /\ before.captchaGeneratedAt # Undefined) =>
        /\ ChallengeAge = maxCaptchaAge + 1 =>
              /\ session.captchaPassed = before.captchaPassed
              /\ session.captchaPassedAt = before.captchaPassedAt
              /\ session.captchaError = Some(ExpiredMessage)
              /\ RedirectedToVerify
        /\ ChallengeAge = maxCaptchaAge =>
              /\ session.captchaPassed = Some(TRUE)
              /\ session.captchaPassedAt = Some(now)

C5_Witness ==
    /\ Submitted /\ DigestMatches
    /\ before.captchaGeneratedAt # Undefined
    /\ ChallengeAge = maxCaptchaAge + 1
    /\ before.captchaPassed = Undefined
    /\ session.captchaError = Some(ExpiredMessage)

\* C6: a successful submission sets captchaPassedAt to the current time,
\* removes the stored challenge, redirects to the stored original URL if
\* there is one and to "/" otherwise, and leaves no stored original URL.
C6_SuccessEffects ==
    ( /\ Submitted /\ DigestMatches
      /\ before.captchaGeneratedAt # Undefined /\ ChallengeAge <= maxCaptchaAge )
    =>  /\ session.captchaPassedAt = Some(now)
        /\ session.captchaHash = Undefined
        /\ session.captchaGeneratedAt = Undefined
        /\ res.kind = "redirect"
        /\ res.location = IF before.originalUrl # Undefined
                           THEN before.originalUrl
                           ELSE Some(RootPath)
        /\ session.originalUrl = Undefined

C6_Witness ==
    /\ Submitted /\ DigestMatches
    /\ before.captchaGeneratedAt # Undefined /\ ChallengeAge <= maxCaptchaAge
    /\ before.originalUrl = Some(DashboardPath)
    /\ res.location = Some(DashboardPath)
    /\ session.originalUrl = Undefined

\* C7: when a session that is not verified asks for a protected URL, is sent
\* to and then loads the challenge page, and then submits the correct answer
\* within the challenge lifetime, the session is verified, the submission
\* redirects to that URL, and no challenge remains in the session.
C7_EndToEnd ==
    ( /\ journey.stage = 3 /\ Submitted /\ DigestMatches
      /\ before.captchaGeneratedAt # Undefined /\ ChallengeAge <= maxCaptchaAge )
    =>  /\ session.captchaPassed = Some(TRUE)
        /\ res.kind = "redirect" /\ res.location = journey.url
        /\ session.captchaHash = Undefined
        /\ session.captchaGeneratedAt = Undefined

C7_Witness ==
    /\ journey.stage = 3 /\ Submitted /\ DigestMatches
    /\ journey.url = Some(DashboardPath \o SomeQuery)
    /\ ChallengeAge = 1
    /\ session.captchaPassed = Some(TRUE)

\* C8: a submission whose answer does not match the stored digest, the
\* challenge not being expired, leaves captchaPassed and captchaPassedAt as
\* they were, records the incorrect error and redirects to /verify.
C8_MismatchEffects ==
    ( /\ Submitted /\ ~DigestMatches
      /\ before.captchaGeneratedAt # Undefined /\ ChallengeAge <= maxCaptchaAge )
    =>  /\ session.captchaPassed = before.captchaPassed
        /\ session.captchaPassedAt = before.captchaPassedAt
        /\ session.captchaError = Some(IncorrectMessage)
        /\ RedirectedToVerify

C8_Witness ==
    /\ Submitted /\ ~DigestMatches
    /\ before.captchaGeneratedAt # Undefined /\ ChallengeAge <= maxCaptchaAge
    /\ req.captchaInput = Some(<<"a","b","c","d","f">>)
    /\ before.captchaPassed = Undefined
    /\ session.captchaError = Some(IncorrectMessage)

\* C9: after a failed submission (wrong answer or expired challenge) the
\* session holds no challenge: captchaHash and captchaGeneratedAt are gone.
C9_FailureDiscardsChallenge ==
    (Submitted /\ RedirectedToVerify) =>
        /\ session.captchaHash = Undefined
        /\ session.captchaGeneratedAt = Undefined

\* C10: a request on a session that is not verified stores the requested URL
\* as the original URL if the path is not exempt, and never creates or
\* overwrites the stored original URL if the path is exempt.
C10_OriginalUrlOnlyForProtected ==
    (Answered /\ ~TruthyBool(before.captchaPassed)) =>
        IF req.path \in ExemptPaths
        THEN session.originalUrl \in {before.originalUrl, Undefined}
        ELSE session.originalUrl = Some(originalUrl(req))

\* C11: a request for a protected URL on a session whose verification has
\* lapsed (age above the verified lifetime) clears captchaPassed and
\* captchaPassedAt, redirects to /verify and stores that URL as the original URL.
C11_LapsedRequestCapturesUrl ==
    ( /\ Answered /\ req.path \notin ExemptPaths
      /\ TruthyBool(before.captchaPassed) /\ before.captchaPassedAt # Undefined
      /\ VerifiedAge > maxPassedAge )
    =>  /\ session.captchaPassed = Undefined
        /\ session.captchaPassedAt = Undefined
        /\ RedirectedToVerify
        /\ session.originalUrl = Some(originalUrl(req))

\* C12: GET /verify on a session that is verified, the verification no older
\* than the verified lifetime, redirects to "/" and leaves every session field
\* as it was (no captchaHash, no captchaGeneratedAt is created).
C12_VerifyPageWhenVerified ==
    ( /\ Answered /\ req.method = "GET" /\ req.path = VerifyPath
      /\ TruthyBool(before.captchaPassed) /\ before.captchaPassedAt # Undefined
      /\ VerifiedAge <= maxPassedAge )
    =>  /\ res.kind = "redirect" /\ res.location = Some(RootPath)
        /\ session = before

\* C18: a request that gets past the rate limiter without a session (for a
\* protected path, /verify or /process-verify) is answered with status 500: it
\* is not passed through, not redirected, and the session store is not changed.
C18_NoSessionIsServerError ==
    (req.method # "none" /\ ~req.hasSession /\ res.status # 429) =>
        /\ res.kind = "send" /\ res.status = 500
        /\ session = before

C18_Witness ==
    /\ req.method = "GET" /\ req.path = DashboardPath /\ ~req.hasSession
    /\ res.status = 500
    /\ before.captchaHash # Undefined

\* the strings a and b differ at most in the case of their letters
SameUpToCase(a, b) ==
    /\ Len(a) = Len(b)
    /\ \A i \in 1..Len(a) :
          \/ a[i] = b[i]
          \/ \E k \in 1..Len(lowerAlphabet) :
                {a[i], b[i]} = {lowerAlphabet[k], upperAlphabet[k]}

\* C19: for a non-empty answer a, the lowercased answer validates against the
\* digest stored for a, and so does every input that differs from a only in
\* the case of its letters.
C19_ValidateIgnoresCase ==
    (call.returned # Undefined /\ call.userInput # Undefined) =>
        LET a == Val(call.captcha).answer
            u == Val(call.userInput)
        IN  /\ u = toLowerCase(a) => Val(call.returned) = TRUE
            /\ (Len(u) > 0 /\ SameUpToCase(u, a)) => Val(call.returned) = TRUE

C19_Witness ==
    /\ call.returned = Some(TRUE)
    /\ call.userInput = Some(<<"A", "b", "2">>)
    /\ call.captcha # Undefined
    /\ Val(call.captcha).answer = <<"a", "B", "2">>

\* C20: an input that differs from the answer by more than the case of its
\* letters does not validate against the digest stored for the answer.
C20_ValidateRejectsOthers ==
    (call.returned # Undefined /\ call.userInput # Undefined) =>
        (~SameUpToCase(Val(call.userInput), Val(call.captcha).answer)
            => Val(call.returned) = FALSE)

C20_Witness ==
    /\ call.returned = Some(FALSE)
    /\ call.userInput = Some(<<"a", "b", "2">>)
    /\ call.captcha # Undefined
    /\ Val(call.captcha).answer = <<"a", "B", "b">>

\* the last step was a check of the rate limiter
Checked == req.method # "none"

\* C13: the first MAX_REQUESTS checks of a client inside a window are allowed,
\* the next one is rejected, and a check that opens a window (the first check
\* after the clock has passed resetAt) is allowed and leaves count = 1 and
\* resetAt = now + WINDOW_MS.
C13_WindowOfMaxRequests ==
    Checked =>
        LET w == Val(window[req.ip])
        IN  /\ w.checks <= MAX_REQUESTS => res.status # 429
            /\ w.checks = MAX_REQUESTS + 1 => res.status = 429
            /\ w.checks = 1 =>
                  ipRequests[req.ip] = Some([count |-> 1, resetAt |-> now + WINDOW_MS])

C13_Witness ==
    /\ Checked /\ res.status # 429
    /\ now > StartTime + WINDOW_MS
    /\ Val(window[req.ip]).checks = 1
    /\ Val(window[req.ip]).previous = MAX_REQUESTS + 1
    /\ Val(ipRequests[req.ip]).count = 1

\* C14: every entry of the registry has 1 <= count <= MAX_REQUESTS, and a
\* rejected check leaves the registry (the client's count and resetAt) as it was.
C14_CountWithinLimit ==
    /\ [](\A ip \in DOMAIN ipRequests :
            ipRequests[ip] # Undefined =>
                /\ 1 <= Val(ipRequests[ip]).count
                /\ Val(ipRequests[ip]).count <= MAX_REQUESTS)
    /\ [][(req'.method # "none" /\ res'.status = 429) => ipRequests' = ipRequests]_vars

C14_Witness ==
    /\ Checked /\ res.status = 429
    /\ Val(ipRequests[req.ip]).count = MAX_REQUESTS
    /\ now < Val(ipRequests[req.ip]).resetAt

\* C15: the check after MAX_REQUESTS checks of one client inside its window
\* is rejected, the decision for a client depends on its own window only, and
\* a check for one client leaves every other client's entry as it was.
C15_ClientsAreIndependent ==
    /\ [](Checked => (res.status = 429 <=> Val(window[req.ip]).checks = MAX_REQUESTS + 1))
    /\ [][req'.method # "none" =>
              \A ip \in DOMAIN ipRequests \ {req'.ip} : ipRequests'[ip] = ipRequests[ip]]_vars

C15_Witness ==
    /\ Checked /\ res.status # 429
    /\ Val(ipRequests[req.ip]).count = 1
    /\ \E ip \in DOMAIN window \ {req.ip} :
          /\ window[ip] # Undefined
          /\ Val(window[ip]).checks = MAX_REQUESTS + 1
          /\ now <= Val(window[ip]).openedAt + WINDOW_MS
          /\ ipRequests[ip] # Undefined
          /\ Val(ipRequests[ip]).count = MAX_REQUESTS

\* requests i and j were in flight together on a session the store holds
\* (saveUninitialized is false: an empty session is not stored, and requests
\* without a stored session do not share one): each loaded the session before
\* the other ended, both have ended, and the limiter let both through
RacedOnSession(i, j) ==
    /\ i # j
    /\ inflight[i].loaded # EmptySession
    /\ inflight[i].stage = "ended" /\ inflight[j].stage = "ended"
    /\ inflight[i].res.status # 429 /\ inflight[j].res.status # 429
    /\ inflight[i].loaded = inflight[j].loaded

\* the responses of i and j and the stored session are those of i handled to
\* its end on the session s, then j handled on the session i left
SerialOutcome(s, i, j) ==
    LET first  == dispatch(s, inflight[i].req, now, inflight[i].rnd)
        second == dispatch(first.session, inflight[j].req, now, inflight[j].rnd)
    IN  /\ inflight[i].res = first.res
        /\ inflight[j].res = second.res
        /\ session = second.session

\* C16: under every interleaving of the requests of one client in flight
\* together, no increment of the limiter is lost: the count of the client's
\* entry is the number of checks of its window (up to MAX_REQUESTS), and no
\* check beyond the first MAX_REQUESTS of a window is allowed.
C16_NoLostIncrement ==
    /\ \A ip \in DOMAIN window :
          ( /\ window[ip] # Undefined /\ ipRequests[ip] # Undefined
            /\ Val(ipRequests[ip]).resetAt = Val(window[ip]).openedAt + WINDOW_MS )
          => Val(ipRequests[ip]).count =
                IF Val(window[ip]).checks > MAX_REQUESTS
                THEN MAX_REQUESTS ELSE Val(window[ip]).checks
    /\ (Checked /\ res.status # 429) => Val(window[req.ip]).checks <= MAX_REQUESTS

C16_Witness ==
    /\ Len(inflight) = 2
    /\ inflight[1].stage = "ended" /\ inflight[2].stage = "ended"
    /\ inflight[1].req.ip = inflight[2].req.ip
    /\ inflight[1].seen = inflight[2].seen
    /\ inflight[1].seen[inflight[1].req.ip] # Undefined
    /\ Val(inflight[1].seen[inflight[1].req.ip]).count = MAX_REQUESTS - 1
    /\ {inflight[1].res.status, inflight[2].res.status} = {302, 429}
    /\ Val(ipRequests[inflight[1].req.ip]).count = MAX_REQUESTS

\* C17: two requests that were in flight together on one session leave the
\* session, and get the responses, of one of the two serial executions from the
\* session they both loaded.
C17_RacesAreSerialized ==
    \A i, j \in 1..Len(inflight) :
        (Len(inflight) = 2 /\ RacedOnSession(i, j)) =>
            \/ SerialOutcome(inflight[i].loaded, i, j)
            \/ SerialOutcome(inflight[i].loaded, j, i)

\* the session fields that hold text
TextFields == {"captchaHash", "originalUrl", "captchaError"}

\* the answers generateCaptcha can return, as drawn and lowercased
Plaintexts ==
    UNION { {generateCaptcha(rnd).answer, toLowerCase(generateCaptcha(rnd).answer)} :
            rnd \in RandomDraws }

\* the last step was GET /verify answered with the challenge page
Issued ==
    /\ Answered /\ req.method = "GET" /\ req.path = VerifyPath
    /\ res.kind = "send" /\ res.status = 200

C23_LimiterComesFirst ==
    /\ []((Checked /\ res.status = 429) => (res = TooManyRequests /\ session = before))
    /\ [][ ( /\ req'.method # "none"
             /\ ipRequests[req'.ip] # Undefined
             /\ now <= Val(ipRequests[req'.ip]).resetAt
             /\ Val(ipRequests[req'.ip]).count >= MAX_REQUESTS )
           => (res'.status = 429 /\ session' = session) ]_vars

C23_Witness ==
    /\ req.method = "POST" /\ req.path = ProcessVerifyPath /\ req.hasSession
    /\ res.status = 429
    /\ DigestMatches
    /\ ChallengeAge <= maxCaptchaAge
    /\ ~TruthyBool(session.captchaPassed)

\* C24: a submission that finds a challenge older than the challenge lifetime
\* records the expired message, which is not the incorrect message, whether or
\* not the submitted answer has the stored digest; it is redirected to /verify
\* and the verification fields are as they were, so a session that was not
\* verified stays not verified.
C24_ExpiryTakesPrecedence ==
    ( /\ Submitted
      /\ before.captchaGeneratedAt # Undefined
      /\ ChallengeAge > maxCaptchaAge )
    =>  /\ session.captchaError = Some(ExpiredMessage)
        /\ ExpiredMessage # IncorrectMessage
        /\ RedirectedToVerify
        /\ session.captchaPassed = before.captchaPassed
        /\ session.captchaPassedAt = before.captchaPassedAt
        /\ (~TruthyBool(before.captchaPassed) => ~TruthyBool(session.captchaPassed))

\* an expired submission with the correct answer, on a session that last
\* recorded the incorrect message
C24_Witness ==
    /\ Submitted /\ DigestMatches
    /\ ChallengeAge > maxCaptchaAge
    /\ before.captchaError = Some(IncorrectMessage)
    /\ session.captchaError = Some(ExpiredMessage)
    /\ ~TruthyBool(session.captchaPassed)

\* C25: a request of any kind on a session that has captchaPassed set and
\* now - captchaPassedAt within the verified lifetime leaves every session
\* field as it was, and is passed on (GET /verify is sent on to "/").
C25_VerifiedFrame ==
    ( /\ Answered
      /\ TruthyBool(before.captchaPassed) /\ before.captchaPassedAt # Undefined
      /\ VerifiedAge <= maxPassedAge )
    =>  /\ session = before
        /\ \/ res.kind = "next"
           \/ res.kind = "redirect" /\ res.location = Some(RootPath)

\* the check of the step increments the count of the entry e of its client
Increments(e, ip) ==
    /\ ipRequests'[ip] # Undefined
    /\ Val(ipRequests'[ip]).resetAt = e.resetAt
    /\ Val(ipRequests'[ip]).count = e.count + 1

\* the check of the step opens a window for its client
Resets(ip) ==
    ipRequests'[ip] = Some([count |-> 1, resetAt |-> now + WINDOW_MS])

\* C26 as stated: the count of an entry is incremented only at times t with
\* resetAt - WINDOW_MS <= t < resetAt, and a check at a time t >= resetAt resets
\* the entry to count = 1, resetAt = t + WINDOW_MS.
C26_IncrementBeforeResetAt ==
    [][ \A ip \in DOMAIN ipRequests :
          (req'.method # "none" /\ req'.ip = ip /\ ipRequests[ip] # Undefined) =>
              LET e == Val(ipRequests[ip])
              IN  /\ Increments(e, ip) => (e.resetAt - WINDOW_MS <= now /\ now < e.resetAt)
                  /\ now >= e.resetAt => Resets(ip) ]_vars

\* C26 amended: the count of an entry is incremented only at times t with
\* resetAt - WINDOW_MS <= t <= resetAt, and a check at a time t > resetAt resets
\* the entry to count = 1, resetAt = t + WINDOW_MS.
C26_IncrementUpToResetAt ==
    [][ \A ip \in DOMAIN ipRequests :
          (req'.method # "none" /\ req'.ip = ip /\ ipRequests[ip] # Undefined) =>
              LET e == Val(ipRequests[ip])
              IN  /\ Increments(e, ip) => (e.resetAt - WINDOW_MS <= now /\ now <= e.resetAt)
                  /\ now > e.resetAt => Resets(ip) ]_vars

\* a check at the time resetAt itself was allowed and counted in the old window
C26_Witness ==
    /\ Checked /\ res.status # 429
    /\ ipRequests[req.ip] # Undefined
    /\ Val(ipRequests[req.ip]).resetAt = now
    /\ Val(ipRequests[req.ip]).count >= 2

\* the time between the first and the last of the last n allowed checks of ip
Span(ip, n) == allowedAt[ip][Len(allowedAt[ip])] - allowedAt[ip][Len(allowedAt[ip]) - n + 1]

\* C27 as stated, of the double bursts the limiter allows: a client whose last
\* 2 * MAX_REQUESTS checks were allowed had them allowed within a span shorter
\* than WINDOW_MS.
C27_DoubleBurstInsideWindow ==
    \A ip \in DOMAIN allowedAt :
        Len(allowedAt[ip]) >= 2 * MAX_REQUESTS => Span(ip, 2 * MAX_REQUESTS) < WINDOW_MS

\* C27 amended: 2 * MAX_REQUESTS allowed checks of one client always span more
\* than WINDOW_MS (the burst across a window boundary that fits in less is of
\* 2 * MAX_REQUESTS - 1 checks: the witness).
C27_DoubleBurstSpansWindow ==
    \A ip \in DOMAIN allowedAt :
        Len(allowedAt[ip]) >= 2 * MAX_REQUESTS => Span(ip, 2 * MAX_REQUESTS) > WINDOW_MS

\* 2 * MAX_REQUESTS - 1 checks allowed within one unit of time, the last
\* MAX_REQUESTS of them in a window opened by the first of these
C27_Witness ==
    /\ Checked /\ res.status # 429
    /\ Len(allowedAt[req.ip]) >= 2 * MAX_REQUESTS - 1
    /\ Span(req.ip, 2 * MAX_REQUESTS - 1) = 1
    /\ Span(req.ip, MAX_REQUESTS) = 0
    /\ ipRequests[req.ip] = Some([count |-> MAX_REQUESTS, resetAt |-> now + WINDOW_MS])

\* the step is a run of the sweep (the clock stands and no request is handled)
Swept == now' = now /\ req'.method = "none" /\ inflight' = inflight

\* C28: a run of the sweep at time t removes exactly the entries with
\* resetAt < t and leaves every other entry as it was, and the check of any
\* client at time t is decided after the sweep as it was before it.
C28_SweepRemovesOnlyPassed ==
    [][ Swept =>
          \A ip \in DOMAIN ipRequests :
              /\ ipRequests'[ip] =
                    IF ipRequests[ip] # Undefined /\ Val(ipRequests[ip]).resetAt < now
                    THEN Undefined
                    ELSE ipRequests[ip]
              /\ rateLimit(ipRequests', ip, now).allowed = rateLimit(ipRequests, ip, now).allowed
       ]_vars

\* the sweep has removed the passed window of one client and kept the window
\* of another, which is full and at its last instant
C28_Witness ==
    /\ req.method = "none"
    /\ \E gone, kept \in DOMAIN ipRequests :
          /\ window[gone] # Undefined /\ ipRequests[gone] = Undefined
          /\ ipRequests[kept] = Some([count |-> MAX_REQUESTS, resetAt |-> now])

\* C29: the entry of a client that has gone idle is eventually removed from
\* the registry, while the clock advances and the sweep keeps running; and
\* after a run of the sweep at time t every entry left has resetAt >= t.
C29_IdleEntryIsSwept ==
    /\ \A ip \in LimiterIPs : (ipRequests[ip] # Undefined) ~> (ipRequests[ip] = Undefined)
    /\ [][ Swept =>
              \A ip \in DOMAIN ipRequests :
                  ipRequests'[ip] # Undefined => Val(ipRequests'[ip]).resetAt >= now ]_vars

\* every client has had a window and the sweep has removed it
C29_Witness ==
    /\ req.method = "none"
    /\ \A ip \in LimiterIPs :
          /\ window[ip] # Undefined
          /\ now > Val(window[ip]).openedAt + WINDOW_MS
          /\ ipRequests[ip] = Undefined

\* C30: a submission whose answer is absent or empty, or one made on a session
\* that holds no challenge digest, is not accepted: validateWithHash returns
\* false for it, the response is the redirect to /verify with an error
\* recorded, and captchaPassed and captchaPassedAt stay as they were.
C30_FailsClosed ==
    ( /\ Submitted
      /\ ~TruthyStr(req.captchaInput) \/ before.captchaHash = Undefined )
    =>  /\ ~validateWithHash(req.captchaInput, before.captchaHash)
        /\ RedirectedToVerify
        /\ session.captchaError \in {Some(ExpiredMessage), Some(IncorrectMessage)}
        /\ session.captchaPassed = before.captchaPassed
        /\ session.captchaPassedAt = before.captchaPassedAt
        /\ (~TruthyBool(before.captchaPassed) => ~TruthyBool(session.captchaPassed))

\* an empty answer submitted on a fresh challenge of an unverified session
C30_Witness ==
    /\ Submitted
    /\ req.captchaInput = Some(<< >>)
    /\ before.captchaHash # Undefined
    /\ before.captchaGeneratedAt # Undefined /\ ChallengeAge <= maxCaptchaAge
    /\ ~TruthyBool(before.captchaPassed)
    /\ session.captchaError = Some(IncorrectMessage)
    /\ ~TruthyBool(session.captchaPassed)

\* the error a session holds, if it holds one that the page would show
ErrorOf(s) == IF s.captchaError # Undefined /\ s.captchaError # Null
              THEN s.captchaError
              ELSE Undefined

\* C31: the challenge page shows the error the session held when it was
\* requested, and once the page has been sent the stored session holds no
\* error, so that a second render shows none.
C31_RenderClearsError ==
    Issued =>
        /\ res.shown[2] = ErrorOf(before)
        /\ ErrorOf(session) = Undefined

\* the last step was a submission that was accepted
Accepted == Submitted /\ ~RedirectedToVerify

\* the digest of a submitted answer
DigestOf(input) == IF TruthyStr(input) THEN Some(sha256(toLowerCase(Val(input)))) ELSE Undefined

\* C32: a challenge verifies at most once and only while it is the session's
\* current challenge. A submission is accepted, or changes captchaPassed or
\* captchaPassedAt, only when its answer matches the digest the session holds,
\* and the acceptance removes that digest; a digest enters the session only by
\* the issuance of a challenge, which replaces the earlier one. So the
\* submission that follows an accepted one is not accepted, and after an
\* issuance the answer of the replaced challenge is not accepted.
C32_ChallengeVerifiesOnce ==
    /\ []( /\ ( \/ Accepted
                \/ Submitted /\ session.captchaPassed # before.captchaPassed
                \/ Submitted /\ session.captchaPassedAt # before.captchaPassedAt )
             => /\ DigestMatches
                /\ session.captchaHash = Undefined
                /\ session.captchaGeneratedAt = Undefined
           /\ (session.captchaHash # Undefined /\ session.captchaHash # before.captchaHash)
             => /\ Issued
                /\ session.captchaHash = Some(sha256(toLowerCase(res.shown[1]))) )
    /\ [][ /\ (Accepted /\ Submitted') => ~Accepted'
           /\ ( /\ Issued /\ Submitted'
                /\ before.captchaHash # Undefined
                /\ before.captchaHash # session.captchaHash
                /\ DigestOf(req'.captchaInput) = before.captchaHash )
             => ( /\ ~Accepted'
                  /\ session'.captchaPassed = session.captchaPassed
                  /\ session'.captchaPassedAt = session.captchaPassedAt )
         ]_vars

\* the answer of a challenge is submitted again at the instant at which the
\* session was verified with it, and is turned away
C32_Witness ==
    /\ Submitted /\ RedirectedToVerify
    /\ TruthyBool(before.captchaPassed)
    /\ before.captchaPassedAt = Some(now)
    /\ before.captchaHash = Undefined
    /\ req.captchaInput = Some(<<"a","B","c","d","e">>)
    /\ session.captchaPassedAt = before.captchaPassedAt

\* the requests the gate decides on
GatedRequests == { r \in Requests : r.hasSession /\ r.method = "GET" /\ r.path \notin ExemptPaths }

\* C33: in every state, if GET /verify would redirect, it redirects to "/" and
\* the gate would pass a request for "/" at the same time; and if the gate
\* would redirect a request, it redirects to /verify and GET /verify would
\* then, on the session the gate leaves, send the challenge page.
C33_NoRedirectLoop ==
    LET rnd  == CHOOSE d \in RandomDraws : TRUE
        page == verifyPage(session, now, rnd)
    IN  /\ page.res.kind = "redirect" =>
              /\ page.res.location = Some(RootPath)
              /\ \A r \in GatedRequests :
                    r.path = RootPath => protect(session, r, now).res.kind = "next"
        /\ \A r \in GatedRequests :
              LET gate == protect(session, r, now)
              IN  gate.res.kind = "redirect" =>
                      /\ gate.res.location = Some(VerifyPath)
                      /\ verifyPage(gate.session, now, rnd).res.kind = "send"

\* the gate has turned away a session at the last instant of its verified
\* lifetime
C33_Witness ==
    /\ Answered /\ req.path = RootPath
    /\ res.by = "captchaMiddleware" /\ RedirectedToVerify
    /\ TruthyBool(before.captchaPassed)
    /\ VerifiedAge = maxPassedAge
    /\ session.captchaPassed = Undefined

\* C34: the sweep changes no decision and no entry a check leaves. Beside the
\* Map of the server stands the Map that the same checks at the same times
\* leave when no sweep ever runs; in every state, for every client, a check
\* made now is allowed by both or rejected by both and leaves the same count
\* and resetAt in both, and right after a check of a client its two entries
\* are equal.
C34_SweepIsInvisible ==
    \A ip \in DOMAIN unswept :
        /\ rateLimit(ipRequests, ip, now).allowed = rateLimit(unswept, ip, now).allowed
        /\ rateLimit(ipRequests, ip, now).ipRequests[ip] = rateLimit(unswept, ip, now).ipRequests[ip]
        /\ (Checked /\ req.ip = ip) =>
              /\ ipRequests[ip] = unswept[ip]
              /\ ipRequests[ip] # Undefined

\* the sweep has removed the entry of a client that had exhausted its window,
\* and that client has not made a check since
C34_Witness ==
    \E ip \in DOMAIN unswept :
        /\ ipRequests[ip] = Undefined
        /\ unswept[ip] # Undefined
        /\ Val(unswept[ip]).count = MAX_REQUESTS
        /\ Val(unswept[ip]).resetAt < now

\* the number of allowed checks of ip, among its last 2 * MAX_REQUESTS + 1, in
\* the interval of length WINDOW_MS that ends now
AllowedInWindow(ip) ==
    Cardinality({ i \in 1..Len(allowedAt[ip]) : allowedAt[ip][i] >= now - WINDOW_MS })

\* C35: in every state, for every client, at most 2 * MAX_REQUESTS of its
\* allowed checks lie in the interval [now - WINDOW_MS, now]; every interval
\* of that length that ends at an allowed check is one of these.
C35_AtMostTwiceMax ==
    \A ip \in DOMAIN allowedAt : AllowedInWindow(ip) <= 2 * MAX_REQUESTS

\* a third window has been opened, with 2 * MAX_REQUESTS - 1 allowed checks
\* in the interval that ends now
C35_Witness ==
    /\ Checked /\ res.status # 429
    /\ Len(allowedAt[req.ip]) = 2 * MAX_REQUESTS + 1
    /\ now > StartTime + 2 * WINDOW_MS
    /\ Span(req.ip, 2 * MAX_REQUESTS + 1) > 2 * WINDOW_MS
    /\ AllowedInWindow(req.ip) = 2 * MAX_REQUESTS - 1

====
